---- MODULE Spec2Model ----
(***************************************************************************)
(* A model of the reward ledger of the flyer bot (bot.py, database.py):    *)
(* the SQLite tables, the chat handlers that change them, the job queue    *)
(* that re-checks subscriptions, and process crash / restart.              *)
(*                                                                         *)
(* Granularity.  Every database function opens its own connection and      *)
(* commits on its own, so a handler is a sequence of separately committed  *)
(* steps; the handler in progress is the variable hand, whose pc names the *)
(* next step.  The process may crash between any two steps.  Updates are   *)
(* handled one at a time (the Application is built without concurrent      *)
(* updates); a job of the job queue runs on the same event loop and so     *)
(* starts only while the handler in progress is suspended at an await.     *)
(* Time is counted in units of half a week.                                *)
(***************************************************************************)
EXTENDS Integers, Sequences, FiniteSets, TLC

\* ------------------------------------------------------------------ bounds
MaxUser == 2        \* user identities are 1..MaxUser
MaxAssign == 1      \* at most this many rows in task_assignments
MaxPays == 2        \* at most this many calls of reward_user
MaxTime == 3        \* the clock runs from 0 to MaxTime
MaxCrashes == 1     \* at most this many crashes of the process
MaxRedeems == 2     \* at most this many redemptions get past the refusals
MaxConns == 2       \* store connections that may run redeem_promocode at once
PromoHorizon == 1   \* the promo specification lets the clock run this far
MaxTasks == 4       \* at most this many rows in tasks
MaxTakeRows == 2    \* concurrent take_task calls insert at most this many rows

\* --------------------------------------------------------------- constants
SevenDays == 2              \* 7 * 24 * 3600 seconds, in half weeks
LevelThreshold == 5000      \* balance from which reward_user raises the level
MinRewardSubscribe == 1000  \* MIN_REWARD["subscribe"]
MinRewardView == 300        \* MIN_REWARD["view"]
MinRewardReaction == 500    \* MIN_REWARD["reaction"]
NULL == 0                   \* SQL NULL in an integer column that holds ids >= 1
NoPending == -1             \* user_data holds no "pending_proof"

UserIds == 1..MaxUser
AssignIds == 1..MaxAssign
\* The assignment ids a callback may carry: 0 is what create_assignment returns
\* when its INSERT OR IGNORE is ignored.
CallbackIds == 0..MaxAssign
WatchIds == 1..MaxPays
Conns == 1..MaxConns
Outcomes == {"member", "left", "error"}

VARIABLES
    users,          \* table users: id -> [balance, level, referrer_id]
    tasks,          \* table tasks: id -> [type, reward, created_by]
    assignments,    \* table task_assignments: id -> [task_id, user_id, status, proof]
    watches,        \* table subscription_watch: id -> [user_id, reward, task_id, due_at]
    promocodes,     \* table promocodes: code -> [reward, expires_at, uses_left]
    nextWatchId,    \* AUTOINCREMENT of subscription_watch
    up,             \* the process is running
    hand,           \* the update handler in progress
    timers,         \* the job queue: armed run_once jobs
    jobs,           \* check_subscription_job instances awaiting send_message
    pending_proof,  \* user_data["pending_proof"] of each user
    awaiting_promo, \* user_data["awaiting_promo"] of each user
    newtask,        \* user_data["newtask"] of each user
    conns,          \* redeem_promocode calls between their SELECT and UPDATE
    now,            \* the clock
    crashes,        \* crashes so far
    \* history variables: what the handlers did, for stating the claims
    ledger,         \* per identity, the sum of the deltas applied on its behalf
    paid,           \* per assignment, how often its reward was credited
    subPays,        \* subscribe rewards verify_subscription credited to a balance
    checks,         \* per watch, how often check_subscription_job checked it
    penalties,      \* per watch, how often its penalty was applied
    finished,       \* per watch, how often check_subscription_job ended
    checkedRun,     \* per watch, checked since the process last started
    grants,         \* per (user, code), how often redeem_promocode granted
    issued          \* per code, the uses_left it was created with, the grants since,
                    \* and whether a tracked uses_left has ever come down to 0

db == <<users, tasks, assignments, watches, promocodes, nextWatchId>>
mem == <<up, hand, timers, jobs, pending_proof, awaiting_promo, newtask, conns>>
hist == <<ledger, paid, subPays, checks, penalties, finished, checkedRun, grants, issued>>
vars == <<db, mem, now, crashes, hist>>

\* ----------------------------------------------------------------- helpers
Max(a, b) == IF a >= b THEN a ELSE b

RECURSIVE SumOver(_, _)
SumOver(f, S) ==
    IF S = {} THEN 0
    ELSE LET x == CHOOSE y \in S : TRUE IN f[x] + SumOver(f, S \ {x})

Total(f) == SumOver(f, DOMAIN f)

\* ---------------------------------------------------------- database.py
NoRow == [present |-> FALSE, balance |-> 0, level |-> 0, referrer_id |-> NULL]

\* SELECT * FROM users WHERE id = ?
get_user(us, u) ==
    IF u \in DOMAIN us
    THEN [present |-> TRUE, balance |-> us[u].balance, level |-> us[u].level,
          referrer_id |-> us[u].referrer_id]
    ELSE NoRow

\* add_user_if_not_exists with SET referrer_id = ? in place of the COALESCE.
add_user_if_not_exists_Overwrite(us, u, referrer) ==
    IF u \notin DOMAIN us
    THEN (u :> [balance |-> 0, level |-> 1, referrer_id |-> referrer]) @@ us
    ELSE IF referrer # NULL
         THEN [us EXCEPT ![u].referrer_id = referrer]
         ELSE us

\* INSERT when the id is new; otherwise COALESCE(referrer_id, ?) when a
\* referrer is given.
add_user_if_not_exists(us, u, referrer) ==
    IF u \notin DOMAIN us
    THEN (u :> [balance |-> 0, level |-> 1, referrer_id |-> referrer]) @@ us
    ELSE IF referrer # NULL
         THEN [us EXCEPT ![u].referrer_id = IF @ = NULL THEN referrer ELSE @]
         ELSE us

\* increment_balance that also sets the level anew from the balance.
increment_balance_Retier(us, u, delta) ==
    IF u \in DOMAIN us
    THEN [us EXCEPT ![u].balance = @ + delta,
                    ![u].level = IF us[u].balance + delta >= 5000 THEN 2 ELSE 1]
    ELSE us

\* UPDATE users SET balance = balance + ? WHERE id = ?  (no row: no change)
increment_balance(us, u, delta) ==
    IF u \in DOMAIN us THEN [us EXCEPT ![u].balance = @ + delta] ELSE us

\* UPDATE users SET level = ? WHERE id = ?
update_level(us, u, level) ==
    IF u \in DOMAIN us THEN [us EXCEPT ![u].level = level] ELSE us

\* SELECT * FROM task_assignments WHERE task_id = ? AND user_id = ?
\* (UNIQUE(task_id, user_id): at most one row); 0 when there is none.
get_assignment_by_task_user(as, t, u) ==
    LET hit == {a \in DOMAIN as : as[a].task_id = t /\ as[a].user_id = u}
    IN IF hit = {} THEN 0 ELSE CHOOSE a \in hit : TRUE

\* AUTOINCREMENT: one more than the largest id ever used (rows are never deleted)
NextAssignmentId(as) == Cardinality(DOMAIN as) + 1

\* create_assignment on a table without UNIQUE(task_id, user_id): a plain INSERT
create_assignment_NoUnique(as, t, u) ==
    (NextAssignmentId(as) :>
        [task_id |-> t, user_id |-> u, status |-> "pending", proof |-> "NULL"]) @@ as

\* INSERT OR IGNORE INTO task_assignments; the id returned is cur.lastrowid,
\* which is 0 on the fresh connection when the insert was ignored.
create_assignment_id(as, t, u) ==
    IF get_assignment_by_task_user(as, t, u) = 0 THEN NextAssignmentId(as) ELSE 0

create_assignment(as, t, u) ==
    IF get_assignment_by_task_user(as, t, u) = 0
    THEN (NextAssignmentId(as) :>
             [task_id |-> t, user_id |-> u, status |-> "pending", proof |-> "NULL"]) @@ as
    ELSE as

\* update_assignment_status with proof = ? in place of COALESCE(?, proof)
update_assignment_status_NoCoalesce(as, a, status, proof) ==
    IF a \in DOMAIN as
    THEN [as EXCEPT ![a].status = status, ![a].proof = proof]
    ELSE as

\* UPDATE task_assignments SET status = ?, proof = COALESCE(?, proof) WHERE id = ?
update_assignment_status(as, a, status, proof) ==
    IF a \in DOMAIN as
    THEN [as EXCEPT ![a].status = status,
                    ![a].proof = IF proof = "NULL" THEN @ ELSE proof]
    ELSE as

\* schedule_subscription_watch that returns an id without storing the row.
schedule_subscription_watch_NotStored(ws, id, u, reward, t, due_at) == ws

\* INSERT INTO subscription_watch
schedule_subscription_watch(ws, id, u, reward, t, due_at) ==
    (id :> [user_id |-> u, reward |-> reward, task_id |-> t, due_at |-> due_at]) @@ ws

\* DELETE FROM subscription_watch WHERE id = ?
delete_subscription_watch(ws, w) ==
    [x \in DOMAIN ws \ {w} |-> ws[x]]

\* SELECT * FROM subscription_watch, re-armed: reschedule_watches (bot.py)
RescheduleDelay(due_at, t) == Max(0, due_at - t)

\* reschedule_watches without the max(0, ...): a watch already past due is
\* not armed.
reschedule_watches_DropPastDue(ws, t) ==
    {[watch_id |-> w, delay |-> ws[w].due_at - t, at |-> t] :
        w \in {v \in DOMAIN ws : ws[v].due_at >= t}}

reschedule_watches(ws, t) ==
    {[watch_id |-> w, delay |-> RescheduleDelay(ws[w].due_at, t), at |-> t] : w \in DOMAIN ws}

\* ------------------------------------------------------------------ bot.py
\* math.floor(reward * 0.15): for every reward from 0 to 2,000,000 the float
\* product floors to the integer quotient below.
RefBonus(reward) == (reward * 15) \div 100

Idle == [op |-> "idle", pc |-> "idle", from |-> 0, uid |-> 0, aid |-> 0, arg |-> 0,
         text |-> <<>>, outcome |-> "", reward |-> 0, row |-> NoRow, wid |-> 0, due |-> 0]

\* The event loop is free for a job: no handler runs, or the one in progress
\* is suspended in an await: reward_user's send_message, or the reply
\* ("reply") or refusal ("deny") a handler ends with.
LoopFree == hand.pc \in {"idle", "notify", "reply", "deny"}

\* A handler may start: the process runs and the previous update is done.
Ready == up /\ hand = Idle

\* A handler that found no assignment of the id it was given and is about to
\* answer "Задание не найдено".
NotFound(op, from, a) ==
    [Idle EXCEPT !.op = op, !.pc = "deny", !.from = from, !.uid = from, !.aid = a,
                 !.outcome = "not_found"]

\* A handler that has done its store call and is about to answer that it did.
Answered(op, from, a) ==
    [Idle EXCEPT !.op = op, !.pc = "reply", !.from = from, !.uid = from, !.aid = a,
                 !.outcome = "done"]

\* user_data without "newtask".  Of a task being created the model keeps the
\* type and whether "title" and "payload_text" are set.
NoNewTask == [type |-> "none", title |-> FALSE, payload |-> FALSE,
              title_text |-> <<>>, payload_text |-> <<>>, reaction |-> <<>>]

\* A caller that is neither inside redeem_promocode nor between the two store
\* calls of take_task.
NoCall == [pc |-> "idle", uid |-> 0, code |-> "", reward |-> 0, tracked |-> FALSE, task |-> 0]

\* Promo codes as stored (create_promocode and redeem_promocode upper-case the
\* text they are given), and the texts a user or the admin may type.
Codes == {"PROMO"}
AdminCodeTexts == {"promo", "PROMO"}
CodeTexts == AdminCodeTexts \cup {"nocode"}

\* str.upper() on the texts above
Upper(text) == IF text = "promo" THEN "PROMO" ELSE IF text = "nocode" THEN "NOCODE" ELSE text

\* The rewards an admin gives a promo code, and ADMIN_IDS.
PromoRewards == {100}
AdminIds == {1}

\* The task catalog the model starts from: one task of each type, each at the
\* floor of its type, created by user 1 through the task-creation flow.
TaskCatalog ==
    (1 :> [type |-> "subscribe", title |-> <<"a">>, reward |-> MinRewardSubscribe,
           target |-> <<"c">>, reaction |-> <<>>, created_by |-> 1]) @@
    (2 :> [type |-> "view", title |-> <<"a">>, reward |-> MinRewardView,
           target |-> <<"c">>, reaction |-> <<>>, created_by |-> 1]) @@
    (3 :> [type |-> "reaction", title |-> <<"a">>, reward |-> MinRewardReaction,
           target |-> <<"c">>, reaction |-> <<"heart">>, created_by |-> 1])

TaskIds == DOMAIN TaskCatalog

\* The state after init_db() and main(), the users table apart.
InitTables ==
    /\ tasks = TaskCatalog
    /\ assignments = <<>>
    /\ watches = <<>>
    /\ promocodes = <<>>
    /\ nextWatchId = 1
    /\ up = TRUE
    /\ hand = Idle
    /\ timers = {}
    /\ jobs = {}
    /\ pending_proof = [u \in UserIds |-> NoPending]
    /\ awaiting_promo = [u \in UserIds |-> FALSE]
    /\ newtask = [u \in UserIds |-> NoNewTask]
    /\ conns = [c \in Conns |-> NoCall]
    /\ now = 0
    /\ crashes = 0
    /\ ledger = [u \in UserIds |-> 0]
    /\ paid = [a \in AssignIds |-> 0]
    /\ subPays = 0
    /\ checks = [w \in WatchIds |-> 0]
    /\ penalties = [w \in WatchIds |-> 0]
    /\ finished = [w \in WatchIds |-> 0]
    /\ checkedRun = [w \in WatchIds |-> FALSE]
    /\ grants = [k \in UserIds \X Codes |-> 0]
    /\ issued = [c \in Codes |-> [limit |-> 0, granted |-> 0, spent |-> FALSE]]

Init ==
    /\ users = <<>>
    /\ InitTables

\* /start [ref_<id>]: referrer is the number after "ref_", or None.
Start(u, referrer) ==
    /\ Ready
    /\ users' = add_user_if_not_exists(users, u, referrer)
    /\ hand' = [Idle EXCEPT !.op = "start", !.pc = "reply", !.from = u, !.uid = u,
                            !.arg = referrer]
    /\ UNCHANGED <<tasks, assignments, watches, promocodes, nextWatchId, up, timers, jobs,
                   pending_proof, awaiting_promo, newtask, conns, now, crashes, hist>>

\* "Профиль" / /profile: creates the account row when there is none.
Profile(u) ==
    /\ Ready
    /\ users' = IF get_user(users, u).present THEN users
                ELSE add_user_if_not_exists(users, u, NULL)
    /\ UNCHANGED <<tasks, assignments, watches, promocodes, nextWatchId, mem, now, crashes, hist>>

\* take_task letting an approved assignment be taken again as well.
Restartable_AlsoApproved(status) == status \in {"rejected", "needs_work", "approved"}

\* take_task: an earlier assignment may be taken again in these states only.
Restartable(status) == status \in {"rejected", "needs_work"}

\* take_<task id>, up to the message the handler answers with: the refusal,
\* or the instructions whose button carries the assignment id.
TakeTask(u, t) ==
    /\ Ready
    /\ t \in DOMAIN tasks
    /\ LET existing == get_assignment_by_task_user(assignments, t, u)
           refused == existing # 0 /\ ~Restartable(assignments[existing].status)
           assignment_id == create_assignment_id(assignments, t, u)
       IN /\ ~refused => (assignment_id = 0 \/ Cardinality(DOMAIN assignments) < MaxAssign)
          /\ assignments' = IF refused THEN assignments ELSE create_assignment(assignments, t, u)
          /\ hand' = [Idle EXCEPT !.op = "take", !.pc = IF refused THEN "deny" ELSE "reply",
                                  !.from = u, !.uid = u, !.arg = t,
                                  !.aid = IF refused THEN 0 ELSE assignment_id]
    /\ UNCHANGED <<users, tasks, watches, promocodes, nextWatchId, up, timers, jobs,
                   pending_proof, awaiting_promo, newtask, conns, now, crashes, hist>>

\* take_task run by concurrent callers (caller c): get_assignment_by_task_user
\* and create_assignment each open a connection of their own, so another
\* caller's statements may fall between them.  This is the first of the two:
\* the SELECT and the refusal.
TakeSelect(c, u, t) ==
    /\ up
    /\ conns[c] = NoCall
    /\ t \in DOMAIN tasks
    /\ LET existing == get_assignment_by_task_user(assignments, t, u)
           refused == existing # 0 /\ ~Restartable(assignments[existing].status)
       IN /\ ~refused
          /\ Cardinality(DOMAIN assignments)
                + Cardinality({d \in Conns : conns[d].pc = "insert"}) < MaxTakeRows
          /\ conns' = [conns EXCEPT ![c] = [NoCall EXCEPT !.pc = "insert", !.uid = u, !.task = t]]
    /\ UNCHANGED <<db, up, hand, timers, jobs, pending_proof, awaiting_promo, newtask,
                   now, crashes, hist>>

\* The second: create_assignment (INSERT OR IGNORE under UNIQUE(task_id,
\* user_id)) and the rest of take_task, which keeps cur.lastrowid as the
\* pending proof when the task is neither subscribe nor view.
TakeInsert(c) ==
    LET call == conns[c]
        assignment_id == create_assignment_id(assignments, call.task, call.uid)
    IN /\ up
       /\ call.pc = "insert"
       /\ assignments' = create_assignment(assignments, call.task, call.uid)
       /\ pending_proof' = IF tasks[call.task].type \notin {"subscribe", "view"}
                           THEN [pending_proof EXCEPT ![call.uid] = assignment_id]
                           ELSE pending_proof
       /\ conns' = [conns EXCEPT ![c] = NoCall]
       /\ UNCHANGED <<users, tasks, watches, promocodes, nextWatchId, up, hand, timers, jobs,
                      awaiting_promo, newtask, now, crashes, hist>>

\* The await a handler ends with has returned, or the exception that ended
\* it ("raise") has been logged.  take_task for a task that is
\* neither subscribe nor view then stores the assignment id as the pending
\* proof.
Reply ==
    /\ up /\ hand.pc \in {"reply", "deny", "raise"}
    /\ pending_proof' =
          IF hand.op = "take" /\ hand.pc = "reply"
             /\ tasks[hand.arg].type \notin {"subscribe", "view"}
          THEN [pending_proof EXCEPT ![hand.uid] = hand.aid]
          ELSE pending_proof
    /\ hand' = Idle
    /\ UNCHANGED <<db, up, timers, jobs, awaiting_promo, newtask, conns, now, crashes, hist>>

\* reward_user up to its await: the two increment_balance calls and the
\* get_user between them.  user_row is read after the payee's increment and
\* before the referrer's.
RewardPay(op, from, payee, a, outcome) ==
    LET reward == tasks[assignments[a].task_id].reward
        us1 == increment_balance(users, payee, reward)
        row == get_user(us1, payee)
        hasRef == row.present /\ row.referrer_id # NULL
        l1 == [ledger EXCEPT ![payee] = @ + reward]
    IN /\ Total(paid) < MaxPays
       /\ users' = IF hasRef THEN increment_balance(us1, row.referrer_id, RefBonus(reward)) ELSE us1
       /\ ledger' = IF hasRef THEN [l1 EXCEPT ![row.referrer_id] = @ + RefBonus(reward)] ELSE l1
       /\ paid' = [paid EXCEPT ![a] = @ + 1]
       /\ hand' = [op |-> op, pc |-> IF hasRef THEN "notify" ELSE "level", from |-> from,
                   uid |-> payee, aid |-> a, arg |-> 0, text |-> <<>>, outcome |-> outcome,
                   reward |-> reward, row |-> row,
                   wid |-> 0, due |-> 0]

\* verify_subscription's gate letting an exception of get_chat_member pass.
IsSubscribed_FailOpen(outcome) == outcome # "left"

\* verify_subscription's gate: get_chat_member answered, and with a status
\* other than "left" and "kicked".
IsSubscribed(outcome) == outcome = "member"

\* verify_sub_<assignment id>: membership is asked of the chat API; "left",
\* "kicked" or an exception end the handler with a message.
VerifySubscription(from, a, outcome) ==
    /\ Ready
    /\ IF a \in DOMAIN assignments /\ IsSubscribed(outcome)
       THEN /\ now + SevenDays <= MaxTime
            /\ RewardPay("verify", from, from, a, outcome)
            /\ subPays' = IF from \in DOMAIN users THEN subPays + 1 ELSE subPays
       ELSE /\ hand' = [Idle EXCEPT !.op = "verify", !.pc = "deny", !.from = from,
                                    !.uid = from, !.aid = a,
                                    !.outcome = IF a \in DOMAIN assignments THEN outcome
                                                ELSE "not_found"]
            /\ UNCHANGED <<users, ledger, paid, subPays>>
    /\ UNCHANGED <<tasks, assignments, watches, promocodes, nextWatchId, up, timers, jobs,
                   pending_proof, awaiting_promo, newtask, conns, now, crashes,
                   checks, penalties, finished, checkedRun, grants, issued>>

\* complete_view_<assignment id>
CompleteView(from, a) ==
    /\ Ready
    /\ IF a \in DOMAIN assignments
       THEN RewardPay("view", from, from, a, "")
       ELSE /\ hand' = NotFound("view", from, a)
            /\ UNCHANGED <<users, ledger, paid>>
    /\ UNCHANGED <<tasks, assignments, watches, promocodes, nextWatchId, up, timers, jobs,
                   pending_proof, awaiting_promo, newtask, conns, now, crashes,
                   subPays, checks, penalties, finished, checkedRun, grants, issued>>

\* approve_<assignment id>
ApproveReaction(from, a) ==
    /\ Ready
    /\ IF a \in DOMAIN assignments
       THEN RewardPay("approve", from, assignments[a].user_id, a, "")
       ELSE /\ hand' = NotFound("approve", from, a)
            /\ UNCHANGED <<users, ledger, paid>>
    /\ UNCHANGED <<tasks, assignments, watches, promocodes, nextWatchId, up, timers, jobs,
                   pending_proof, awaiting_promo, newtask, conns, now, crashes,
                   subPays, checks, penalties, finished, checkedRun, grants, issued>>

\* reward_user: await send_message to the referrer; a failure is swallowed.
RewardNotify ==
    /\ up /\ hand.pc = "notify"
    /\ hand' = [hand EXCEPT !.pc = "level"]
    /\ UNCHANGED <<db, up, timers, jobs, pending_proof, awaiting_promo, newtask, conns, now, crashes, hist>>

\* reward_user: the level update, decided on the user_row read before.
RewardLevel ==
    /\ up /\ hand.pc = "level"
    /\ users' = IF hand.row.present /\ hand.row.balance >= LevelThreshold
                THEN update_level(users, hand.uid, Max(hand.row.level, 2))
                ELSE users
    /\ hand' = [hand EXCEPT !.pc = IF hand.op = "verify" THEN "watch" ELSE "status"]
    /\ UNCHANGED <<tasks, assignments, watches, promocodes, nextWatchId, up, timers, jobs,
                   pending_proof, awaiting_promo, newtask, conns, now, crashes, hist>>

\* verify_subscription: schedule_subscription_watch
VerifyWatch ==
    /\ up /\ hand.pc = "watch"
    /\ watches' = schedule_subscription_watch(watches, nextWatchId, hand.from, hand.reward,
                                              assignments[hand.aid].task_id, now + SevenDays)
    /\ nextWatchId' = nextWatchId + 1
    /\ hand' = [hand EXCEPT !.pc = "arm", !.wid = nextWatchId, !.due = now + SevenDays]
    /\ UNCHANGED <<users, tasks, assignments, promocodes, up, timers, jobs,
                   pending_proof, awaiting_promo, newtask, conns, now, crashes, hist>>

\* verify_subscription: job_queue.run_once(check_subscription_job, due_at - now)
VerifyArm ==
    /\ up /\ hand.pc = "arm"
    /\ timers' = timers \cup {[watch_id |-> hand.wid, delay |-> hand.due - now, at |-> now]}
    /\ hand' = [hand EXCEPT !.pc = "status"]
    /\ UNCHANGED <<db, up, jobs, pending_proof, awaiting_promo, newtask, conns, now, crashes, hist>>

\* The proof each approving handler passes to update_assignment_status.
ApprovalProof(op) ==
    IF op = "verify" THEN "subscription_ok" ELSE IF op = "view" THEN "viewed" ELSE "NULL"

\* update_assignment_status(assignment_id, "approved", ...), the handler's last step
SetApproved ==
    /\ up /\ hand.pc = "status"
    /\ assignments' = update_assignment_status(assignments, hand.aid, "approved", ApprovalProof(hand.op))
    /\ hand' = Idle
    /\ UNCHANGED <<users, tasks, watches, promocodes, nextWatchId, up, timers, jobs,
                   pending_proof, awaiting_promo, newtask, conns, now, crashes, hist>>

\* A photo message: handle_photo, up to the message it answers with
HandlePhoto(u) ==
    /\ Ready
    /\ pending_proof[u] # NoPending
    /\ IF pending_proof[u] \in DOMAIN assignments
       THEN /\ assignments' = update_assignment_status(assignments, pending_proof[u], "submitted", "file")
            /\ pending_proof' = [pending_proof EXCEPT ![u] = NoPending]
            /\ hand' = Answered("photo", u, pending_proof[u])
       ELSE /\ hand' = NotFound("photo", u, pending_proof[u])
            /\ UNCHANGED <<assignments, pending_proof>>
    /\ UNCHANGED <<users, tasks, watches, promocodes, nextWatchId, up, timers, jobs,
                   awaiting_promo, newtask, conns, now, crashes, hist>>

\* reject_<assignment id>: the UPDATE, then the caption "Отклонено" whether
\* or not a row was updated
RejectReaction(from, a) ==
    /\ Ready
    /\ assignments' = update_assignment_status(assignments, a, "rejected", "NULL")
    /\ hand' = Answered("reject", from, a)
    /\ UNCHANGED <<users, tasks, watches, promocodes, nextWatchId, up, timers, jobs,
                   pending_proof, awaiting_promo, newtask, conns, now, crashes, hist>>

\* rework_<assignment id>: the UPDATE, then the caption "Отправлено на
\* доработку" whether or not a row was updated
ReworkReaction(from, a) ==
    /\ Ready
    /\ assignments' = update_assignment_status(assignments, a, "needs_work", "NULL")
    /\ hand' = Answered("rework", from, a)
    /\ UNCHANGED <<users, tasks, watches, promocodes, nextWatchId, up, timers, jobs,
                   pending_proof, awaiting_promo, newtask, conns, now, crashes, hist>>

\* ------------------------------------------------- check_subscription_job
\* The job of an armed timer runs: up to its await of send_message.  The watch
\* is read, membership is asked of the chat API ("left", "kicked" or an
\* exception count as unsubscribed) and, when unsubscribed, the reward is
\* taken back.  A member's watch is deleted at once.
CheckSubscriptionJob(t, outcome) ==
    LET w == t.watch_id IN
    /\ up /\ LoopFree
    /\ t \in timers
    /\ now >= t.at + t.delay
    /\ timers' = timers \ {t}
    /\ IF w \notin DOMAIN watches
       THEN UNCHANGED <<users, watches, jobs, ledger, checks, penalties, finished, checkedRun>>
       ELSE /\ checks' = [checks EXCEPT ![w] = @ + 1]
            /\ checkedRun' = [checkedRun EXCEPT ![w] = TRUE]
            /\ IF outcome = "member"
               THEN /\ watches' = delete_subscription_watch(watches, w)
                    /\ finished' = [finished EXCEPT ![w] = @ + 1]
                    /\ UNCHANGED <<users, jobs, ledger, penalties>>
               ELSE /\ users' = increment_balance(users, watches[w].user_id, -watches[w].reward)
                    /\ ledger' = [ledger EXCEPT ![watches[w].user_id] = @ - watches[w].reward]
                    /\ penalties' = [penalties EXCEPT ![w] = @ + 1]
                    /\ jobs' = jobs \cup {w}
                    /\ UNCHANGED <<watches, finished>>
    /\ UNCHANGED <<tasks, assignments, promocodes, nextWatchId, up, hand, pending_proof,
                   awaiting_promo, newtask, conns, now, crashes, paid, subPays, grants, issued>>

\* check_subscription_job after send_message: delivered, the watch is deleted;
\* not delivered (the user blocked the bot), send_message raises inside the
\* except block and the job ends before delete_subscription_watch.
JobNotified(w, delivered) ==
    /\ up /\ LoopFree
    /\ w \in jobs
    /\ jobs' = jobs \ {w}
    /\ watches' = IF delivered THEN delete_subscription_watch(watches, w) ELSE watches
    /\ finished' = [finished EXCEPT ![w] = @ + 1]
    /\ UNCHANGED <<users, tasks, assignments, promocodes, nextWatchId, up, hand, timers,
                   pending_proof, awaiting_promo, newtask, conns, now, crashes,
                   ledger, paid, subPays, checks, penalties, checkedRun, grants, issued>>

\* ------------------------------------------------------- process and clock
\* The process dies: the handler in progress, the job queue and user_data are
\* memory and are lost; an open store transaction is rolled back.
Crash ==
    /\ up
    /\ crashes < MaxCrashes
    /\ up' = FALSE
    /\ crashes' = crashes + 1
    /\ hand' = Idle
    /\ timers' = {}
    /\ jobs' = {}
    /\ pending_proof' = [u \in UserIds |-> NoPending]
    /\ awaiting_promo' = [u \in UserIds |-> FALSE]
    /\ newtask' = [u \in UserIds |-> NoNewTask]
    /\ conns' = [c \in Conns |-> NoCall]
    /\ UNCHANGED <<db, now, hist>>

\* main(): init_db, build_application, reschedule_watches, run_polling
Main ==
    /\ ~up
    /\ up' = TRUE
    /\ timers' = reschedule_watches(watches, now)
    /\ checkedRun' = [w \in WatchIds |-> FALSE]
    /\ UNCHANGED <<db, hand, jobs, pending_proof, awaiting_promo, newtask, conns, now, crashes,
                   ledger, paid, subPays, checks, penalties, finished, grants, issued>>

\* Time passes by one unit; a handler's steps take far less than a unit.
Tick ==
    /\ now < MaxTime
    /\ hand = Idle
    /\ now' = now + 1
    /\ UNCHANGED <<db, mem, crashes, hist>>

\* -------------------------------------------------------- task creation
\* The types a newtask_<type> callback may carry: the three buttons, and any
\* other word a client sends.
NewTaskTypes == {"subscribe", "view", "reaction", "other"}

\* Message texts, as sequences of characters.
Texts ==
    {<<"a", "nl", "b">>, <<"-", "1">>, <<"0">>, <<"2", "9", "9">>, <<" ", "3", "0", "0">>,
     <<"4", "9", "9">>, <<"5", "0", "0">>, <<"9", "9", "9">>, <<"1", "0", "0", "0">>,
     <<"3", "sup2">>}

\* The characters int() reads as decimal digits, and their values.
DigitValue ==
    [c \in {"0", "1", "2", "3", "4", "5", "9"} |->
        IF c = "0" THEN 0 ELSE IF c = "1" THEN 1 ELSE IF c = "2" THEN 2
        ELSE IF c = "3" THEN 3 ELSE IF c = "4" THEN 4 ELSE IF c = "5" THEN 5 ELSE 9]

\* str.strip(): leading and trailing blanks removed.
RECURSIVE Strip(_)
Strip(text) ==
    IF text = <<>> THEN text
    ELSE IF Head(text) = " " THEN Strip(Tail(text))
    ELSE IF text[Len(text)] = " " THEN Strip(SubSeq(text, 1, Len(text) - 1))
    ELSE text

\* str.isdigit(): not empty, and every character a digit; the superscript
\* two ("sup2") is one for isdigit.
IsDigit(text) ==
    /\ text # <<>>
    /\ \A i \in 1..Len(text) : text[i] \in DOMAIN DigitValue \cup {"sup2"}

\* int() raises ValueError on a superscript digit.
IntRaises(text) == \E i \in 1..Len(text) : text[i] \notin DOMAIN DigitValue

\* int(text) for a text of decimal digits.
RECURSIVE ToInt(_)
ToInt(text) ==
    IF text = <<>> THEN 0
    ELSE 10 * ToInt(SubSeq(text, 1, Len(text) - 1)) + DigitValue[text[Len(text)]]

\* A floor of 0 for every type.
MinReward_NoFloor(type) == 0

\* MIN_REWARD.get(task_type, 0)
MinReward(type) ==
    IF type = "subscribe" THEN MinRewardSubscribe
    ELSE IF type = "view" THEN MinRewardView
    ELSE IF type = "reaction" THEN MinRewardReaction
    ELSE 0

\* text.split("\n", 1)[0][:80]: the first line, cut at 80 characters
RECURSIVE FirstLine(_)
FirstLine(text) ==
    IF text = <<>> \/ Head(text) = "nl" THEN <<>>
    ELSE <<Head(text)>> \o FirstLine(Tail(text))

TitleOf(text) ==
    LET line == FirstLine(text)
    IN SubSeq(line, 1, IF Len(line) < 80 THEN Len(line) ELSE 80)

\* str.lstrip("@")
RECURSIVE LStripAt(_)
LStripAt(text) ==
    IF text # <<>> /\ Head(text) = "@" THEN LStripAt(Tail(text)) ELSE text

\* (text or "").strip() or the heart
ReactionOf(text) == IF Strip(text) = <<>> THEN <<"heart">> ELSE Strip(text)

\* INSERT INTO tasks: AUTOINCREMENT id (tasks are never deleted).  target is
\* the payload's chat_username or link, reaction its reaction (empty when
\* the payload has none).
create_task(ts, type, title, reward, target, reaction, created_by) ==
    (Cardinality(DOMAIN ts) + 1 :>
        [type |-> type, title |-> title, reward |-> reward, target |-> target,
         reaction |-> reaction, created_by |-> created_by])
    @@ ts

\* newtask_<type>: newtask_choose
NewTaskChoose(u, type) ==
    /\ Ready
    /\ newtask' = [newtask EXCEPT ![u] = [NoNewTask EXCEPT !.type = type]]
    /\ UNCHANGED <<db, up, hand, timers, jobs, pending_proof, awaiting_promo, conns,
                   now, crashes, hist>>

\* A text that is no menu button, from a user who is creating a task:
\* text_router hands it to newtask_title, newtask_payload, newtask_reaction
\* and newtask_reward in turn.  The first two store it as title and payload;
\* newtask_reward refuses a text that is not a number or is below the floor
\* of the type, and otherwise stores the task and drops "newtask".
NewTaskText(u, text) ==
    LET type == newtask[u].type
        reward_text == Strip(text)
        data == [type |-> type, title |-> TRUE, payload |-> TRUE,
                 title_text |-> TitleOf(text), payload_text |-> Strip(text),
                 reaction |-> IF type = "reaction" THEN ReactionOf(text)
                              ELSE newtask[u].reaction]
        filled == [newtask EXCEPT ![u] = data]
        seen == [Idle EXCEPT !.op = "newtask", !.from = u, !.uid = u, !.text = text]
    IN /\ Ready
       /\ type # "none"
       /\ IF ~IsDigit(reward_text)
          THEN /\ hand' = [seen EXCEPT !.pc = "deny"]
               /\ newtask' = filled
               /\ UNCHANGED tasks
          ELSE IF IntRaises(reward_text)
          THEN /\ hand' = [seen EXCEPT !.pc = "raise"]
               /\ newtask' = filled
               /\ UNCHANGED tasks
          ELSE IF ToInt(reward_text) < MinReward(type)
          THEN /\ hand' = [seen EXCEPT !.pc = "deny"]
               /\ newtask' = filled
               /\ UNCHANGED tasks
          ELSE /\ Cardinality(DOMAIN tasks) < MaxTasks
               /\ hand' = [seen EXCEPT !.pc = "reply"]
               /\ tasks' = create_task(tasks, type, data.title_text, ToInt(reward_text),
                                       IF type = "subscribe" THEN LStripAt(data.payload_text)
                                       ELSE data.payload_text,
                                       IF type = "reaction" THEN data.reaction ELSE <<>>, u)
               /\ newtask' = [newtask EXCEPT ![u] = NoNewTask]
       /\ UNCHANGED <<users, assignments, watches, promocodes, nextWatchId, up, timers, jobs,
                      pending_proof, awaiting_promo, conns, now, crashes, hist>>

\* ---------------------------------------------------------------- promo
\* admin panel, "Промокод", then "code;reward;date;limit": create_promocode
\* (INSERT OR REPLACE).  expires_at is NULL or a time, uses_left is NULL
\* (tracked = FALSE) or a number.
create_promocode(ps, code, reward, expires_at, tracked, uses_left) ==
    (Upper(code) :> [reward |-> reward, expires_at |-> expires_at,
                     tracked |-> tracked, uses_left |-> IF tracked THEN uses_left ELSE 0])
    @@ ps

CreatePromo(admin, code, reward, expires_at, tracked, uses_left) ==
    /\ Ready
    /\ admin \in AdminIds
    /\ promocodes' = create_promocode(promocodes, code, reward, expires_at, tracked, uses_left)
    /\ issued' = [issued EXCEPT ![Upper(code)] = [limit |-> IF tracked THEN uses_left ELSE 0, granted |-> 0,
                                               spent |-> @.spent]]
    /\ UNCHANGED <<users, tasks, assignments, watches, nextWatchId, mem, now, crashes,
                   ledger, paid, subPays, checks, penalties, finished, checkedRun, grants>>

\* "Промокод": promo()
Promo(u) ==
    /\ Ready
    /\ awaiting_promo' = [awaiting_promo EXCEPT ![u] = TRUE]
    /\ UNCHANGED <<db, up, hand, timers, jobs, pending_proof, newtask, conns, now, crashes, hist>>

\* row[2] and row[2] < datetime.utcnow().isoformat(): a date is a proper
\* prefix of the timestamps of its own day, so it is expired from then on.
Expired(row, t) == row.expires_at # NULL /\ row.expires_at <= t

\* redeem_promocode up to its UPDATEs: the SELECT and the three refusals.
RedeemRefused(ps, code, t) ==
    \/ Upper(code) \notin DOMAIN ps
    \/ Expired(ps[Upper(code)], t)
    \/ (ps[Upper(code)].tracked /\ ps[Upper(code)].uses_left <= 0)

\* promo_apply on connection c: the text is the code.  A refusal ends the
\* handler; otherwise the call holds the row it selected.
PromoApply(c, u, text) ==
    /\ up
    /\ awaiting_promo[u]
    /\ conns[c] = NoCall
    /\ IF RedeemRefused(promocodes, text, now)
       THEN /\ awaiting_promo' = [awaiting_promo EXCEPT ![u] = FALSE]
            /\ UNCHANGED conns
       ELSE /\ Total(grants) + Cardinality({d \in Conns : conns[d] # NoCall}) < MaxRedeems
            /\ conns' = [conns EXCEPT ![c] =
                           [pc |-> "update", uid |-> u, code |-> Upper(text),
                            reward |-> promocodes[Upper(text)].reward,
                            tracked |-> promocodes[Upper(text)].tracked, task |-> 0]]
            /\ UNCHANGED awaiting_promo
    /\ UNCHANGED <<db, up, hand, timers, jobs, pending_proof, newtask, now, crashes,
                   ledger, paid, subPays, checks, penalties, finished, checkedRun, grants, issued>>

\* UPDATE promocodes SET uses_left = uses_left - 1 WHERE code = ?, run when
\* the selected row had a uses_left; on a row whose uses_left is NULL by now
\* the subtraction leaves NULL.
decrement_uses(ps, code) ==
    IF code \in DOMAIN ps /\ ps[code].tracked
    THEN [ps EXCEPT ![code].uses_left = @ - 1]
    ELSE ps

\* redeem_promocode's transaction (UPDATE users, UPDATE promocodes, commit),
\* and promo_apply's reply.
PromoCommit(c) ==
    LET call == conns[c] IN
    /\ up
    /\ call.pc = "update"
    /\ users' = increment_balance(users, call.uid, call.reward)
    /\ promocodes' = IF call.tracked THEN decrement_uses(promocodes, call.code) ELSE promocodes
    /\ ledger' = [ledger EXCEPT ![call.uid] = @ + call.reward]
    /\ grants' = [grants EXCEPT ![<<call.uid, call.code>>] = @ + 1]
    /\ issued' = [issued EXCEPT ![call.code].granted = @ + 1,
                                ![call.code].spent = @ \/ (call.tracked /\ promocodes'[call.code].uses_left = 0)]
    /\ awaiting_promo' = [awaiting_promo EXCEPT ![call.uid] = FALSE]
    /\ conns' = [conns EXCEPT ![c] = NoCall]
    /\ UNCHANGED <<tasks, assignments, watches, nextWatchId, up, hand, timers, jobs,
                   pending_proof, newtask, now, crashes,
                   paid, subPays, checks, penalties, finished, checkedRun>>

\* ------------------------------------------------------- next-state relations
Accounts ==
    \/ \E u \in UserIds, r \in UserIds \cup {NULL} : Start(u, r)
    \/ \E u \in UserIds : Profile(u)

RewardSteps ==
    \/ RewardNotify
    \/ RewardLevel
    \/ SetApproved

SubscribeFlow ==
    \/ \E u \in UserIds, a \in CallbackIds, o \in Outcomes : VerifySubscription(u, a, o)
    \/ VerifyWatch
    \/ VerifyArm
    \/ \E t \in timers, o \in Outcomes : CheckSubscriptionJob(t, o)
    \/ \E w \in WatchIds, d \in BOOLEAN : JobNotified(w, d)

ProcessAndClock ==
    \/ Crash
    \/ Main
    \/ Tick

ViewAndReactionFlow ==
    \/ \E u \in UserIds, a \in CallbackIds : CompleteView(u, a)
    \/ \E u \in UserIds, a \in CallbackIds : ApproveReaction(u, a)
    \/ \E u \in UserIds : HandlePhoto(u)
    \/ \E u \in UserIds, a \in CallbackIds : RejectReaction(u, a)
    \/ \E u \in UserIds, a \in CallbackIds : ReworkReaction(u, a)

NewTaskFlow ==
    \/ \E u \in UserIds, type \in NewTaskTypes : NewTaskChoose(u, type)
    \/ \E u \in UserIds, text \in Texts : NewTaskText(u, text)

PromoFlow ==
    \/ \E u \in AdminIds, code \in AdminCodeTexts, r \in PromoRewards,
          e \in {NULL, PromoHorizon}, tr \in BOOLEAN, n \in 1..2 :
          CreatePromo(u, code, r, e, tr, n)
    \/ \E u \in UserIds : Promo(u)
    \/ \E c \in Conns, u \in UserIds, text \in CodeTexts : PromoApply(c, u, text)
    \/ \E c \in Conns : PromoCommit(c)

Next ==
    \/ Accounts
    \/ \E u \in UserIds, t \in TaskIds : TakeTask(u, t)
    \/ Reply
    \/ RewardSteps
    \/ SubscribeFlow
    \/ ViewAndReactionFlow
    \/ ProcessAndClock
    \/ PromoFlow
    \/ NewTaskFlow

Spec == Init /\ [][Next]_vars

\* A balance just below the level threshold: four subscribe and three view
\* rewards.
NearThreshold == 4 * MinRewardSubscribe + 3 * MinRewardView

\* The subscribe flow, without crashes, from a state in which user 1 has
\* earned 4900 coins (four subscribe and three view rewards) and nobody else
\* is recorded.
InitTier ==
    /\ InitTables
    /\ users = (1 :> [balance |-> NearThreshold, level |-> 1, referrer_id |-> NULL])

NextTier ==
    \/ \E u \in UserIds : Start(u, u - 1)
    \/ \E u \in UserIds : TakeTask(u, 1)
    \/ Reply
    \/ RewardSteps
    \/ SubscribeFlow
    \/ Tick

SpecTier == InitTier /\ [][NextTier]_vars

\* Task creation alone.
NextNewTask ==
    \/ NewTaskFlow
    \/ Reply

SpecNewTask == Init /\ [][NextNewTask]_vars

\* The task handlers alone: accounts, taking a task, the three approving
\* handlers and the screenshot review.
NextLedger ==
    \/ Accounts
    \/ \E u \in UserIds, t \in TaskIds : TakeTask(u, t)
    \/ Reply
    \/ RewardSteps
    \/ ViewAndReactionFlow

SpecLedger == Init /\ [][NextLedger]_vars

\* The subscribe flow with its compliance watch, across crashes and restarts;
\* user 1 sends a plain /start, every other user comes through the link of
\* the user before.
NextWatch ==
    \/ \E u \in UserIds : Start(u, u - 1)
    \/ \E u \in UserIds : TakeTask(u, 1)
    \/ Reply
    \/ RewardSteps
    \/ SubscribeFlow
    \/ ProcessAndClock

SpecWatch == Init /\ [][NextWatch]_vars

\* The same flow from the state in which user 1 has sent /start and every
\* other user has then come through the link of the user before, with the
\* scheduling the program relies on: a handler that has started runs on, the
\* job queue runs a job whose time has come, time passes however many updates
\* arrive, and a process that is down is started again.
InitStarted ==
    /\ InitTables
    /\ users = [u \in UserIds |-> [balance |-> 0, level |-> 1, referrer_id |-> u - 1]]

NextRestart ==
    \/ \E u \in UserIds : TakeTask(u, 1)
    \/ Reply
    \/ RewardSteps
    \/ SubscribeFlow
    \/ ProcessAndClock

Fairness ==
    /\ WF_vars(Reply)
    /\ WF_vars(RewardSteps)
    /\ WF_vars(VerifyWatch)
    /\ WF_vars(VerifyArm)
    /\ WF_vars(\E t \in timers, o \in Outcomes : CheckSubscriptionJob(t, o))
    /\ WF_vars(\E w \in WatchIds, d \in BOOLEAN : JobNotified(w, d))
    /\ WF_vars(Main)
    /\ SF_vars(Tick)

SpecRestart == InitStarted /\ [][NextRestart]_vars /\ Fairness

\* Promo codes, redeemed over concurrent store connections.
NextPromo ==
    \/ \E u \in UserIds : Profile(u)
    \/ PromoFlow
    \/ (now < PromoHorizon /\ Tick)

SpecPromo == Init /\ [][NextPromo]_vars

\* The promo flow of the one process the program runs: a handler's call of
\* redeem_promocode has returned before the next update is handled.
NoRedeemOpen == \A c \in Conns : conns[c] = NoCall

NextPromoSerial ==
    \/ NoRedeemOpen /\ \E u \in UserIds : Profile(u)
    \/ NoRedeemOpen /\ \E u \in AdminIds, code \in AdminCodeTexts, r \in PromoRewards,
                          e \in {NULL, PromoHorizon}, tr \in BOOLEAN, n \in 1..2 :
                          CreatePromo(u, code, r, e, tr, n)
    \/ NoRedeemOpen /\ \E u \in UserIds : Promo(u)
    \/ NoRedeemOpen /\ \E u \in UserIds, text \in CodeTexts : PromoApply(1, u, text)
    \/ PromoCommit(1)
    \/ NoRedeemOpen /\ now < PromoHorizon /\ Tick

SpecPromoSerial == Init /\ [][NextPromoSerial]_vars

\* take_task called concurrently for the pairs of two tasks, with the
\* reviewer's reject and rework in between.
NextTake ==
    \/ \E c \in Conns, u \in UserIds, t \in {1, 3} : TakeSelect(c, u, t)
    \/ \E c \in Conns : TakeInsert(c)
    \/ \E u \in UserIds, a \in AssignIds : RejectReaction(u, a)
    \/ \E u \in UserIds, a \in AssignIds : ReworkReaction(u, a)
    \/ Reply

SpecTake == Init /\ [][NextTake]_vars

\* ================================================================= claims
\* The balance an identity has: its row's balance; an identity without a row
\* has nothing (a row, once created, starts at 0).
Balance(us, u) == IF u \in DOMAIN us THEN us[u].balance ELSE 0

\* A step in which reward_user pays (the first step of an approving handler).
PayStep == Total(paid') = Total(paid) + 1

\* C1: over any sequence of handler invocations (verify_subscription,
\* complete_view, approve_reaction, also repeated ones and ones on an
\* assignment that is already approved, rejected or needs_work) the reward of
\* one assignment is credited at most once.
C1_RewardAtMostOncePerAssignment ==
    \A a \in AssignIds : paid[a] <= 1

\* C2: the same user is never granted the same promo code twice: the second
\* redemption is refused and the balance changes once.
C2_PromoOncePerUser ==
    \A k \in UserIds \X Codes : grants[k] <= 1

\* C3: when check_subscription_job checks a stored watch, a member's balance
\* is unchanged, and otherwise (left, kicked, adapter failure) the watched
\* user's balance goes down by exactly watch.reward from its value at that
\* moment, with no floor.
C3_ClawbackExact ==
    [][\A w \in WatchIds :
          (w \in DOMAIN watches /\ checks'[w] = checks[w] + 1) =>
              IF penalties'[w] = penalties[w]
              THEN \A u \in UserIds : Balance(users', u) = Balance(users, u)
              ELSE /\ watches[w].user_id \in DOMAIN users'
                   /\ users'[watches[w].user_id].balance =
                          Balance(users, watches[w].user_id) - watches[w].reward]_vars

\* C4: once check_subscription_job has run to its end for a stored watch, the
\* watch is no longer stored, whatever the membership check and the penalty
\* notification gave.
C4_WatchDeletedAfterJob ==
    \A w \in WatchIds : finished[w] > 0 => w \notin DOMAIN watches

\* C5: each compliance watch is checked at most once and penalised at most
\* once, across crashes and restarts.
C5_WatchCheckedOnce ==
    \A w \in WatchIds : checks[w] <= 1 /\ penalties[w] <= 1

\* C6: on process start every stored watch is re-armed with delay
\* max(0, due_at - now); so every stored watch, also one already past due, is
\* eventually checked after a restart (the check either finds a member or
\* applies the penalty to the watched user), and no watch leaves the store
\* without having been checked.
C6_RearmedAndChecked ==
    /\ [][(~up /\ up') =>
            timers' = {[watch_id |-> w,
                        delay |-> IF watches[w].due_at > now THEN watches[w].due_at - now ELSE 0,
                        at |-> now] : w \in DOMAIN watches}]_vars
    /\ [][\A w \in WatchIds :
            /\ (w \in DOMAIN watches /\ w \notin DOMAIN watches') => checks'[w] >= 1
            /\ (w \in DOMAIN watches /\ checks'[w] = checks[w] + 1) =>
                  \/ w \notin DOMAIN watches' /\ ledger' = ledger
                  \/ ledger' = [ledger EXCEPT ![watches[w].user_id] = @ - watches[w].reward]]_vars
    /\ \A w \in WatchIds :
            (w \in DOMAIN watches /\ ~checkedRun[w]) ~> checkedRun[w]

\* C6, witness: the process has started again and armed, with delay 0, a
\* stored watch that was already past due.
C6_Witness ==
    /\ up
    /\ crashes > 0
    /\ \E t \in timers :
          /\ t.watch_id \in DOMAIN watches
          /\ t.delay = 0
          /\ watches[t.watch_id].due_at < t.at

\* C7: paying the subscribe reward and storing its compliance watch are one
\* unit: whenever verify_subscription is not in progress (also after a
\* crash), every subscribe reward credited has its watch stored, and every
\* watch its reward.
C7_PayAndWatchAtomic ==
    hand.op # "verify" => subPays = nextWatchId - 1

\* C8: a promo code created with uses_left = N is granted at most N times and
\* its uses_left never goes below 0, under any interleaving of redemptions.
C8_UsesLeftRespected ==
    \A c \in Codes :
        (c \in DOMAIN promocodes /\ promocodes[c].tracked) =>
            /\ promocodes[c].uses_left >= 0
            /\ issued[c].granted <= issued[c].limit

\* C9: when reward_user pays R to a user B whose referrer is A (A # B), A's
\* balance goes up by exactly floor(R * 15 / 100) and B's by exactly R; when
\* B has no referrer, no balance but B's changes.
C9_ReferralBonus ==
    [][PayStep =>
        LET B == hand'.uid
            R == hand'.reward
            A == IF B \in DOMAIN users THEN users[B].referrer_id ELSE NULL
        IN IF A = NULL
           THEN \A v \in UserIds \ {B} : Balance(users', v) = Balance(users, v)
           ELSE A # B =>
                  /\ A \in DOMAIN users'
                  /\ users'[A].balance = Balance(users, A) + (R * 15) \div 100
                  /\ users'[B].balance = users[B].balance + R]_vars

\* C10: the balance recorded for a user equals the sum of the deltas the
\* handlers applied on that user's behalf (rewards, referral bonuses, promo
\* grants, clawbacks), whenever they were applied.
C10_BalanceIsSumOfDeltas ==
    \A u \in DOMAIN users : users[u].balance = ledger[u]

\* The step in which take_task has run for user u and task t, up to its answer.
TakeStep(u, t) == hand = Idle /\ hand'.op = "take" /\ hand'.uid = u /\ hand'.arg = t

\* C11: when take_task runs for a (task, user) pair whose assignment is
\* rejected or needs_work, the pair then has an assignment in state pending,
\* and the assignment id the handler passes on (in the button's callback data
\* or as the pending proof) is the id of a stored assignment of that pair.
C11_RetakeYieldsPending ==
    [][\A u \in UserIds, t \in TaskIds :
         LET existing == get_assignment_by_task_user(assignments, t, u) IN
         (TakeStep(u, t) /\ existing # 0
             /\ assignments[existing].status \in {"rejected", "needs_work"}) =>
            /\ hand'.pc = "reply"
            /\ \E a \in DOMAIN assignments' :
                  /\ assignments'[a].task_id = t
                  /\ assignments'[a].user_id = u
                  /\ assignments'[a].status = "pending"
            /\ hand'.aid \in DOMAIN assignments'
            /\ assignments'[hand'.aid].task_id = t
            /\ assignments'[hand'.aid].user_id = u]_vars

\* C12: take_task for a (task, user) pair whose assignment is pending,
\* submitted or approved is refused, and neither the refusal nor the end of
\* the handler changes the assignments, any balance or the watches.
C12_ActiveTakeRefused ==
    [][/\ \A u \in UserIds, t \in TaskIds :
            LET existing == get_assignment_by_task_user(assignments, t, u) IN
            (TakeStep(u, t) /\ existing # 0
                /\ assignments[existing].status \in {"pending", "submitted", "approved"}) =>
               /\ hand'.pc = "deny"
               /\ assignments' = assignments
               /\ users' = users
               /\ watches' = watches
       /\ (hand.op = "take" /\ hand.pc = "deny" /\ hand' = Idle) =>
               /\ assignments' = assignments
               /\ users' = users
               /\ watches' = watches
               /\ pending_proof' = pending_proof]_vars

\* C12, witness: take_task has just refused a pair whose assignment is approved.
C12_Witness ==
    /\ hand.op = "take"
    /\ hand.pc = "deny"
    /\ \E a \in DOMAIN assignments :
          /\ assignments[a].task_id = hand.arg
          /\ assignments[a].user_id = hand.uid
          /\ assignments[a].status = "approved"

\* C13: in every reachable state no user is their own referrer, whatever
\* referral parameter a /start carried (ref_<own id> included).
C13_NoSelfReferral ==
    \A u \in DOMAIN users : users[u].referrer_id # u

\* C14: once a user's referrer is set (not NULL), no step changes it; in
\* particular a later /start with another referral parameter does not.
C14_ReferrerImmutable ==
    [][\A u \in DOMAIN users :
         users[u].referrer_id # NULL =>
            /\ u \in DOMAIN users'
            /\ users'[u].referrer_id = users[u].referrer_id]_vars

\* C14, witness: /start has just run with a referral parameter for a user
\* whose stored referrer is another one.
C14_Witness ==
    /\ hand.op = "start"
    /\ hand.arg # NULL
    /\ hand.uid \in DOMAIN users
    /\ users[hand.uid].referrer_id # NULL
    /\ users[hand.uid].referrer_id # hand.arg

\* C15: a user whose account record holds no referrer (the record was first
\* created without one, by profile or by a plain /start) has no referrer
\* after any later step.
C15_ReferrerDecidedAtCreation ==
    [][\A u \in DOMAIN users :
         users[u].referrer_id = NULL =>
            /\ u \in DOMAIN users'
            /\ users'[u].referrer_id = NULL]_vars

\* C16: every stored task of type subscribe, view or reaction has a reward of
\* at least the floor of its type (1000, 300, 500), and a reward message that
\* is not a number or is below the floor stores no task.
C16_RewardFloor ==
    /\ [](\A t \in DOMAIN tasks :
            /\ tasks[t].type = "subscribe" => tasks[t].reward >= 1000
            /\ tasks[t].type = "view" => tasks[t].reward >= 300
            /\ tasks[t].type = "reaction" => tasks[t].reward >= 500)
    /\ [][(hand = Idle /\ hand'.op = "newtask") =>
            LET type == newtask[hand'.uid].type
                txt == Strip(hand'.text)
                floor == IF type = "subscribe" THEN 1000 ELSE IF type = "view" THEN 300
                         ELSE IF type = "reaction" THEN 500 ELSE 0
            IN (~IsDigit(txt) \/ IntRaises(txt) \/ ToInt(txt) < floor) => tasks' = tasks]_vars

\* C16, witness: a reward message of 999 for a subscribe task has been
\* refused, and a task created through the flow is stored.
C16_Witness ==
    /\ hand.op = "newtask"
    /\ hand.pc = "deny"
    /\ hand.text = <<"9", "9", "9">>
    /\ newtask[hand.uid].type = "subscribe"
    /\ Cardinality(DOMAIN tasks) > Cardinality(DOMAIN TaskCatalog)

\* C17: whenever no handler, job or redemption is in progress in a run
\* without crashes (every balance update has completed), a user whose balance
\* is at least 5000 has level 2 or more.
C17_TierAtThreshold ==
    (up /\ crashes = 0 /\ hand = Idle /\ jobs = {} /\ NoRedeemOpen) =>
        \A u \in DOMAIN users : users[u].balance >= 5000 => users[u].level >= 2

\* C18: a user's level is 1 when the account record is created and no step
\* lowers it, a clawback that takes the balance below 5000 or below zero
\* included.
C18_TierMonotone ==
    [][\A u \in UserIds :
         /\ (u \notin DOMAIN users /\ u \in DOMAIN users') => users'[u].level = 1
         /\ u \in DOMAIN users =>
               /\ u \in DOMAIN users'
               /\ users'[u].level >= users[u].level]_vars

\* C18, witness: after a clawback a user of level 2 has a balance below 5000.
C18_Witness ==
    \E u \in DOMAIN users, w \in WatchIds :
        /\ penalties[w] > 0
        /\ users[u].level = 2
        /\ users[u].balance < 5000

\* C19: whenever a handler (verify_subscription, complete_view,
\* approve_reaction) turns an assignment to approved, the user it has called
\* reward_user for is the assignment's own user, whoever sent the callback.
C19_RewardToAssignee ==
    [][(/\ hand.pc = "status"
        /\ hand' = Idle
        /\ hand.aid \in DOMAIN assignments
        /\ assignments[hand.aid].status # "approved"
        /\ assignments'[hand.aid].status = "approved") =>
           hand.uid = assignments[hand.aid].user_id]_vars

\* C20: when the membership check of verify_subscription reports left/kicked
\* or raises, the handler refuses, and neither the refusal nor the end of the
\* handler changes a balance, the watches, the timers or an assignment.
C20_GateFailsClosed ==
    [][/\ (hand = Idle /\ hand'.op = "verify" /\ hand'.outcome \in {"left", "error"}) =>
            /\ hand'.pc = "deny"
            /\ users' = users
            /\ watches' = watches
            /\ timers' = timers
            /\ assignments' = assignments
       /\ (hand.op = "verify" /\ hand.pc = "deny" /\ hand' = Idle /\ up') =>
            /\ users' = users
            /\ watches' = watches
            /\ timers' = timers
            /\ assignments' = assignments]_vars

\* C20, witness: verify_subscription has just refused an existing assignment
\* because get_chat_member raised.
C20_Witness ==
    /\ hand.op = "verify"
    /\ hand.pc = "deny"
    /\ hand.outcome = "error"
    /\ hand.aid \in DOMAIN assignments
    /\ assignments[hand.aid].status = "pending"

\* C21: an assignment's status changes only along pending -> submitted,
\* pending -> approved, submitted -> approved, submitted -> rejected and
\* submitted -> needs_work; an approved assignment never changes status again
\* and a rejected or needs_work assignment is never turned into approved.
C21_StatusTransitions ==
    [][\A a \in DOMAIN assignments :
          assignments'[a].status # assignments[a].status
             => <<assignments[a].status, assignments'[a].status>> \in
                   { <<"pending", "submitted">>, <<"pending", "approved">>,
                     <<"submitted", "approved">>, <<"submitted", "rejected">>,
                     <<"submitted", "needs_work">> }]_vars

\* C22: once a promo code with a tracked uses_left has come down to
\* uses_left = 0, no later redeem_promocode of that code is granted, whatever
\* happens in between, create_promocode with the same code included.
C22_ExhaustionIsPermanent ==
    [][\A c \in Codes :
          issued[c].spent => \A u \in UserIds : grants'[<<u, c>>] = grants[<<u, c>>]]_vars

\* C23: a compliance clawback (check_subscription_job finding the user
\* unsubscribed) changes only the watched user's balance and removes the
\* watch: the referrer's balance, every other user's balance, all tiers and
\* all assignment statuses stay as they were.
C23_ClawbackFrame ==
    [][\A w \in WatchIds :
          /\ penalties'[w] = penalties[w] + 1 =>
                /\ \A u \in UserIds \ {watches[w].user_id} : Balance(users', u) = Balance(users, u)
                /\ DOMAIN users' = DOMAIN users
                /\ \A u \in DOMAIN users : users'[u].level = users[u].level
                /\ assignments' = assignments
          /\ (w \in jobs /\ finished'[w] = finished[w] + 1) =>
                /\ users' = users
                /\ assignments' = assignments
                /\ w \notin DOMAIN watches']_vars

\* C24: the compliance watch is stored before its timer is armed: every
\* timer armed by verify_subscription or by reschedule_watches carries the id
\* of a watch that was in subscription_watch before the arming step (and
\* still is after it).
C24_StoredBeforeArmed ==
    [][\A t \in timers' \ timers :
          /\ t.watch_id \in DOMAIN watches
          /\ t.watch_id \in DOMAIN watches']_vars

\* verify_subscription has just armed the timer of the watch it stored.
C24_Witness ==
    /\ hand.op = "verify" /\ hand.pc = "status"
    /\ \E t \in timers : t.watch_id = hand.wid /\ t.watch_id \in DOMAIN watches

\* C25: under any interleaving of concurrent take_task / create_assignment
\* calls for the same (task, user) pair, task_assignments never holds more
\* than one row for that pair.
C25_OneRowPerPair ==
    \A t \in TaskIds, u \in UserIds :
        Cardinality({a \in DOMAIN assignments :
                        assignments[a].task_id = t /\ assignments[a].user_id = u}) <= 1

\* Two calls for the same pair have both passed the SELECT; one has inserted
\* the pair's row and the other is about to insert.
C25_Witness ==
    \E t \in TaskIds, u \in UserIds :
        /\ conns[1] = NoCall
        /\ conns[2].pc = "insert" /\ conns[2].task = t /\ conns[2].uid = u
        /\ \E a \in DOMAIN assignments :
              /\ assignments[a].task_id = t /\ assignments[a].user_id = u
              /\ assignments[a].status = "pending"

\* C26: a status transition (approve, reject, rework, submit) asked for an
\* assignment id that does not exist is answered with a not-found outcome and
\* changes no assignment, balance or watch.
C26_MissingAssignmentNotFound ==
    [][(/\ hand = Idle
        /\ hand'.op \in {"approve", "reject", "rework", "photo"}
        /\ hand'.aid \notin DOMAIN assignments) =>
           /\ hand'.outcome = "not_found"
           /\ assignments' = assignments
           /\ users' = users
           /\ watches' = watches]_vars

\* C27: in the task-creation conversation each text message is consumed by
\* exactly one step: the first message after the type is the title and
\* nothing else, and a task is stored only by a message that finds title and
\* payload already given by earlier messages, with exactly that title and
\* that payload.
C27_OneStepPerMessage ==
    [][(hand = Idle /\ hand'.op = "newtask") =>
          LET u == hand'.uid
              data == newtask[u]
          IN /\ ~data.title =>
                   /\ newtask'[u].title
                   /\ ~newtask'[u].payload
                   /\ tasks' = tasks
             /\ \A t \in DOMAIN tasks' \ DOMAIN tasks :
                   /\ data.title
                   /\ data.payload
                   /\ tasks'[t].title = data.title_text
                   /\ tasks'[t].target = IF data.type = "subscribe"
                                         THEN LStripAt(data.payload_text)
                                         ELSE data.payload_text]_vars

\* C28: while an assignment of a reaction task is needs_work and the bot is
\* ready for the next update, a photo from the assignment's user is
\* recorded: handle_photo brings an assignment of that (task, user) pair to
\* submitted with the photo as its proof.
C28_PhotoAfterRework ==
    \A a \in DOMAIN assignments :
        (/\ Ready
         /\ assignments[a].status = "needs_work"
         /\ tasks[assignments[a].task_id].type = "reaction") =>
            ENABLED (/\ HandlePhoto(assignments[a].user_id)
                     /\ assignments'[a].status = "submitted"
                     /\ assignments'[a].proof = "file")

\* C29: update_assignment_status called without a proof (approve_reaction,
\* reject_reaction, rework_reaction) leaves the stored proof as it was, a
\* call with a proof (handle_photo, complete_view, verify_subscription)
\* replaces it, and the status is always set to the requested value.
C29_ProofKeptOrReplaced ==
    [][/\ \A a \in DOMAIN assignments :
             /\ (hand = Idle /\ hand'.op = "reject" /\ hand'.aid = a) =>
                   /\ assignments'[a].status = "rejected"
                   /\ assignments'[a].proof = assignments[a].proof
             /\ (hand = Idle /\ hand'.op = "rework" /\ hand'.aid = a) =>
                   /\ assignments'[a].status = "needs_work"
                   /\ assignments'[a].proof = assignments[a].proof
             /\ (hand = Idle /\ hand'.op = "photo" /\ hand'.aid = a) =>
                   /\ assignments'[a].status = "submitted"
                   /\ assignments'[a].proof = "file"
             /\ (hand.pc = "status" /\ hand.aid = a /\ hand' = Idle /\ up') =>
                   /\ assignments'[a].status = "approved"
                   /\ assignments'[a].proof =
                         IF hand.op = "approve" THEN assignments[a].proof
                         ELSE IF hand.op = "view" THEN "viewed" ELSE "subscription_ok"]_vars

\* The screenshot stored at submission is still the proof of an assignment
\* that approve_reaction has approved.
C29_Witness ==
    \E a \in DOMAIN assignments :
        /\ assignments[a].status = "approved"
        /\ assignments[a].proof = "file"
        /\ hand = Idle
====
